---- MODULE Spec2Model ----
(***************************************************************************)
(* Ledger service of abehnia/web: CSV decoding (logic.rs, CSVReader),      *)
(* report aggregation (entity.rs, Report), the SQLite store handle         *)
(* (query.rs, SqliteStore), Model::commit_transactions (logic.rs) and the  *)
(* two HTTP handlers `report` and `transactions` (bin/web/main.rs).        *)
(*                                                                         *)
(* Decimal values are modelled as integers counting hundredths (87.32 is   *)
(* 8732); the amounts used stay far inside the 96-bit range of             *)
(* rust_decimal, so no addition overflows or rescales.                     *)
(* A Decimal of 10^15 or more, used only where a Report is stored, is the  *)
(* record [peta, rest] standing for peta * 10^15 + rest hundredths.        *)
(* Uuid::new_v4 is modelled as the pair <<task, n>> of the calling task and *)
(* the number of ids the task drew before: no value is ever repeated.      *)
(***************************************************************************)
EXTENDS Integers, Sequences, FiniteSets, TLC

\* ------------------------------------------------------------------ bounds
MaxAmount == 2
MaxTotal == 4
MaxLen == 3
MaxRep == 1
MaxRows == 3
NumIngest == 2

\* ------------------------------------------------------------- entity.rs
\* Report::from_dec
from_dec(gross_revenue, expenses, net_revenue) ==
    [gross_revenue |-> gross_revenue, expenses |-> expenses, net_revenue |-> net_revenue]

\* Report::new
ReportNew == from_dec(0, 0, 0)

\* add_transaction with the two branches exchanged
add_transaction_swapped(report, transaction) ==
    IF transaction.amount > 0
    THEN [report EXCEPT !.expenses = @ + transaction.amount,
                         !.net_revenue = @ + transaction.amount]
    ELSE [report EXCEPT !.gross_revenue = @ - transaction.amount,
                         !.net_revenue = @ + transaction.amount]

\* add_transaction whose second branch adds the amount to expenses
add_transaction_expenses_sign(report, transaction) ==
    IF transaction.amount > 0
    THEN [report EXCEPT !.gross_revenue = @ + transaction.amount,
                         !.net_revenue = @ + transaction.amount]
    ELSE [report EXCEPT !.expenses = @ + transaction.amount,
                         !.net_revenue = @ + transaction.amount]

\* add_transaction that adds the magnitude of the amount to net_revenue
add_transaction_net_unsigned(report, transaction) ==
    IF transaction.amount > 0
    THEN [report EXCEPT !.gross_revenue = @ + transaction.amount,
                         !.net_revenue = @ + transaction.amount]
    ELSE [report EXCEPT !.expenses = @ - transaction.amount,
                         !.net_revenue = @ - transaction.amount]

\* Report::add_transaction
add_transaction(report, transaction) ==
    IF transaction.amount > 0
    THEN [report EXCEPT !.gross_revenue = @ + transaction.amount,
                         !.net_revenue = @ + transaction.amount]
    ELSE [report EXCEPT !.expenses = @ - transaction.amount,
                         !.net_revenue = @ + transaction.amount]

\* add that forgets the expenses of its right operand
add_drops_rhs_expenses(lhs, rhs) ==
    from_dec(lhs.gross_revenue + rhs.gross_revenue,
             lhs.expenses,
             lhs.net_revenue + rhs.net_revenue)

\* Report::add
add(lhs, rhs) ==
    from_dec(lhs.gross_revenue + rhs.gross_revenue,
             lhs.expenses + rhs.expenses,
             lhs.net_revenue + rhs.net_revenue)

\* Result values
Ok(v) == [ok |-> TRUE, val |-> v]
Err(e) == [ok |-> FALSE, err |-> e]

\* The text a report column keeps for the Decimal v (in hundredths) that
\* create_report binds: the binder hands the Decimal over as an f64 and SQLite
\* writes the f64 into the text column with 15 significant digits, at least
\* one digit after the point and no other trailing zero ("20.0" for 20.00,
\* "15.12", "15.1" for 15.10, "-0.05"). Every amount of two decimal places
\* within the integers of this module has at most 10 significant digits and
\* lies between 0.01 and 10^15, so its digits are kept and the form is fixed:
\* sign, digits before the point, digits after it.
DecimalText(v) ==
    LET m == IF v < 0 THEN 0 - v ELSE v
        h == m % 100
    IN [form |-> "fixed", neg |-> v < 0, whole |-> m \div 100,
        frac |-> IF h % 10 = 0 THEN <<h \div 10>> ELSE <<h \div 10, h % 10>>]

\* The same for a Decimal of 10^15 or more, written w.peta * 10^15 + w.rest
\* hundredths (w.peta in 1..9, w.rest >= 0): SQLite writes such an f64 with
\* an exponent ("1.0e+15"); the digits of the mantissa are left out, nothing
\* reads them.
DecimalTextWide(w) == [form |-> "scientific", neg |-> FALSE, exponent |-> 15]

\* Decimal::from_str on the text of a column: digits with an optional point,
\* no exponent
from_str(text) ==
    IF text.form = "fixed"
    THEN LET m == text.whole * 100
                  + (IF Len(text.frac) = 1 THEN text.frac[1] * 10
                     ELSE text.frac[1] * 10 + text.frac[2])
         IN Ok(IF text.neg THEN 0 - m ELSE m)
    ELSE Err("Invalid decimal")

\* impl FromRow for Report: only gross_revenue and expenses are columns,
\* each read as text and parsed (a text that does not parse is the error
\* ColumnDecode), net_revenue is recomputed.
from_row(row) ==
    LET gross_revenue == from_str(row.gross_revenue)
        expenses == from_str(row.expenses)
    IN IF ~gross_revenue.ok \/ ~expenses.ok THEN Err("ColumnDecode")
       ELSE Ok(from_dec(gross_revenue.val, expenses.val,
                        gross_revenue.val - expenses.val))

\* WithId::from_data with the Uuid drawn from the counter
from_data(id, data) == [id |-> id, data |-> data]

\* struct Transaction
Transaction(date, amount, memo) == [date |-> date, amount |-> amount, memo |-> memo]

INCOME == "Income"
EXPENSE == "Expense"

\* a conversion that takes every label but "Income" for an expense
try_from_other_is_expense(value) ==
    IF value.income = INCOME
    THEN Ok(Transaction(value.date, value.amount, value.memo))
    ELSE Ok(Transaction(value.date, 0 - value.amount, value.memo))

\* impl TryFrom<TransactionFromCSV> for Transaction
try_from(value) ==
    IF value.income = INCOME
    THEN Ok(Transaction(value.date, value.amount, value.memo))
    ELSE IF value.income = EXPENSE
         THEN Ok(Transaction(value.date, 0 - value.amount, value.memo))
         ELSE Err("InvalidCSVIncome")

\* -------------------------------------------------------------- logic.rs
RECURSIVE FoldTransactions(_, _, _)
FoldTransactions(report, transactions, i) ==
    IF i > Len(transactions) THEN report
    ELSE FoldTransactions(add_transaction(report, transactions[i]), transactions, i + 1)

\* a fold that starts at the second movement
calculate_balance_skip_first(transactions) ==
    FoldTransactions(ReportNew, transactions, 2)

\* Model::calculate_balance_from_transactions
calculate_balance_from_transactions(transactions) ==
    FoldTransactions(ReportNew, transactions, 1)

RECURSIVE FoldReports(_, _, _)
FoldReports(report, reports, i) ==
    IF i > Len(reports) THEN report
    ELSE FoldReports(add(report, reports[i]), reports, i + 1)

\* a total that keeps the last report only
calculate_total_report_last_only(reports) ==
    IF Len(reports) = 0 THEN ReportNew ELSE add(ReportNew, reports[Len(reports)])

\* Model::calculate_total_report
calculate_total_report(reports) == FoldReports(ReportNew, reports, 1)

\* ------------------------------------------------- CSV decoding (logic.rs)
\* A CSV input is the sequence of its lines. A line is either a comment
\* line (first byte '#', skipped by the reader configured with
\* .comment(Some(b'#'))) or a record: the sequence of its fields after
\* splitting at ',' and trimming (Trim::All). has_headers(false) makes the
\* first line data; flexible(true) admits records of any length.
CommentLine == [comment |-> TRUE, fields |-> <<>>]
Rec(fields) == [comment |-> FALSE, fields |-> fields]

\* NaiveDate::from_str on the date texts used: ISO dates parse, others fail.
DateTable ==
    ("2021-07-12" :> <<2021, 7, 12>>) @@ ("2023-08-20" :> <<2023, 8, 20>>) @@
    ("2023-08-13" :> <<2023, 8, 13>>) @@ ("2020-09-12" :> <<2020, 9, 12>>)

\* Decimal deserialization on the amount texts used (value in hundredths).
DecimalTable ==
    ("87.32" :> 8732) @@ ("12.13" :> 1213) @@ ("10.12" :> 1012) @@
    ("10.00" :> 1000) @@ ("0.00" :> 0) @@ ("-5.00" :> (0 - 500))

\* serde deserialization of one record into TransactionFromCSV
\* { date: NaiveDate, income: String, amount: Decimal, memo: String }:
\* the four fields are taken in order; fields past the fourth are not read.
DeserializeRecord(fields) ==
    IF Len(fields) < 4 THEN Err("Deserialize")
    ELSE IF fields[1] \notin DOMAIN DateTable THEN Err("Deserialize")
    ELSE IF fields[3] \notin DOMAIN DecimalTable THEN Err("Deserialize")
    ELSE Ok([date |-> DateTable[fields[1]], income |-> fields[2],
             amount |-> DecimalTable[fields[3]], memo |-> fields[4]])

\* csv_reader.into_deserialize::<TransactionFromCSV>(): one Result per
\* record, comment lines produce nothing.
RECURSIVE Records(_, _)
Records(lines, i) ==
    IF i > Len(lines) THEN <<>>
    ELSE IF lines[i].comment THEN Records(lines, i + 1)
    ELSE <<DeserializeRecord(lines[i].fields)>> \o Records(lines, i + 1)

\* StreamExt::filter_map(|x| x.ok()) of the first stage
RECURSIVE FilterOk(_, _)
FilterOk(results, i) ==
    IF i > Len(results) THEN <<>>
    ELSE IF results[i].ok THEN <<results[i].val>> \o FilterOk(results, i + 1)
    ELSE FilterOk(results, i + 1)

\* StreamExt::filter_map(|x| x.try_into().ok()) of the second stage
RECURSIVE FilterTryInto(_, _)
FilterTryInto(values, i) ==
    IF i > Len(values) THEN <<>>
    ELSE IF try_from(values[i]).ok
         THEN <<try_from(values[i]).val>> \o FilterTryInto(values, i + 1)
         ELSE FilterTryInto(values, i + 1)

\* a reader that ends the stream at the first record that fails
RECURSIVE TakeWhileOk(_, _)
TakeWhileOk(results, i) ==
    IF i > Len(results) THEN <<>>
    ELSE IF results[i].ok THEN <<results[i].val>> \o TakeWhileOk(results, i + 1)
    ELSE <<>>

\* decoding that stops at the first failing record
read_transaction_stops_at_error(bytes) ==
    FilterTryInto(TakeWhileOk(Records(bytes, 1), 1), 1)

\* CSVReader::read_transaction_from_csv_bytes, collected into a Vec
read_transaction_from_csv_bytes(bytes) ==
    FilterTryInto(FilterOk(Records(bytes, 1), 1), 1)

\* The lines the inputs are built from (logic.rs tests valid_csv and
\* invalid_csv, plus a lower-case label, a non-numeric amount, a record with
\* a fifth column, a negative Income amount and a zero amount).
LineText == Rec(<<"text">>)
LineShort == Rec(<<"2020-09-12", "Income">>)
LineIncome == Rec(<<"2021-07-12", "Income", "87.32", "first">>)
LineBadLabel == Rec(<<"2023-08-13", "NotExpense", "10.12", "third">>)
LineExpense == Rec(<<"2023-08-20", "Expense", "12.13", "second">>)
LineBadDate == Rec(<<"20-08-2023", "Income", "10.00", "fourth">>)
LineLowerLabel == Rec(<<"2021-07-12", "income", "10.00", "lower">>)
LineBadAmount == Rec(<<"2021-07-12", "Income", "abc", "amount">>)
LineExtra == Rec(<<"2023-08-20", "Expense", "10.12", "fifth", "extra">>)
LineNegIncome == Rec(<<"2021-07-12", "Income", "-5.00", "refund">>)
LineZero == Rec(<<"2020-09-12", "Expense", "0.00", "zero">>)

Lines ==
    {CommentLine, LineText, LineShort, LineIncome, LineBadLabel, LineExpense,
     LineBadDate, LineLowerLabel, LineBadAmount, LineExtra, LineNegIncome, LineZero}

RECURSIVE SeqsUpTo(_, _)
SeqsUpTo(S, n) ==
    IF n = 0 THEN {<<>>}
    ELSE LET shorter == SeqsUpTo(S, n - 1)
         IN shorter \cup {Append(s, x) : s \in {q \in shorter : Len(q) = n - 1}, x \in S}

\* ------------------------------------------------------------ query.rs
\* a row with the two amounts bound to each other's column
ReportRowSwapped(with_id) ==
    [id |-> with_id.id, gross_revenue |-> DecimalText(with_id.data.expenses),
     expenses |-> DecimalText(with_id.data.gross_revenue)]

\* The column values create_report binds: id, gross_revenue, expenses
\* (net_revenue is not a column of the report table).
ReportRow(with_id) ==
    [id |-> with_id.id, gross_revenue |-> DecimalText(with_id.data.gross_revenue),
     expenses |-> DecimalText(with_id.data.expenses)]

\* The column values create_transactions binds for one movement.
TransactionRow(with_id) ==
    [id |-> with_id.id, date |-> with_id.data.date,
     amount |-> with_id.data.amount, memo |-> with_id.data.memo]

VARIABLES
    \* the committed database: the rows of the two tables, in insertion order
    txTable, reportTable,
    \* the task holding SQLite's write lock (NoTask when free), per task the
    \* number of Uuids it has drawn
    writer, nextId,
    \* per request task: position, multipart fields, index of the next field,
    \* decoded Vec<Transaction>, batch report, uncommitted rows of its handle
    pc, req, fieldIdx, transactions, report, pendTx, pendRep,
    \* per task: rows written through its handle so far (history), the value
    \* the task returned, the handler's response, number of pool.begin() calls
    \* that succeeded, the steps at which a storage fault hit the task
    wrote, result, resp, opened, faults,
    \* per query: the database state its read transaction sees, the reports
    \* get_reports returned
    snapshot, reports,
    \* aggregation from the zero report
    ra, rb,
    \* batch splitting
    batch, split, whole, merged, fpc,
    \* merge algebra
    ma, mb, mc, mres, mpc,
    \* decoding
    csv, decoded, cpc,
    \* per task: the operations it performed so far, in order, each with its
    \* outcome (history); per query: the number of report rows committed when
    \* its pool.begin() returned (history)
    trace, beganAt,
    \* one application of add_transaction: input report, movement, output
    ar, am, aout, apc,
    \* one conversion of a parsed CSV row: the row, the Result
    tv, tres, tpc,
    \* one store handle used directly: the Reports handed to create_report and
    \* the movements handed to create_transactions so far (history), the last
    \* read through the handle
    hGiven, hBatch, hRead

sysVars ==
    <<txTable, reportTable, writer, nextId, pc, req, fieldIdx, transactions,
      report, pendTx, pendRep, wrote, result, resp, opened, faults,
      snapshot, reports, trace, beganAt>>
aggVars == <<ra, rb>>
foldVars == <<batch, split, whole, merged, fpc>>
mergeVars == <<ma, mb, mc, mres, mpc>>
csvVars == <<csv, decoded, cpc>>
addVars == <<ar, am, aout, apc>>
tryVars == <<tv, tres, tpc>>
storeVars == <<hGiven, hBatch, hRead>>
vars == <<sysVars, aggVars, foldVars, mergeVars, csvVars, addVars, tryVars, storeVars>>

NoTask == 0
IngestTasks == 1..NumIngest
\* one Query request runs beside the Ingest requests
QueryTasks == {NumIngest + 1}
Tasks == IngestTasks \cup QueryTasks

\* what a task returned: nothing yet, Ok(value), or Err(error) with the step
\* that failed and what made it fail
RNone == [kind |-> "none"]
ROk(v) == [kind |-> "ok", val |-> v]
RErr(e, at, cause) == [kind |-> "err", err |-> e, at |-> at, cause |-> cause]

NoReport == from_data(<<0, 0>>, ReportNew)
\* taken: whether the read happened; tx, rep: the rows visible to it;
\* writing: the task holding the write lock when it happened
NoSnapshot == [taken |-> FALSE, tx |-> <<>>, rep |-> <<>>, writing |-> 0]

\* values of the parts a specification does not use
SysIdle ==
    /\ txTable = <<>> /\ reportTable = <<>> /\ writer = NoTask /\ nextId = [t \in Tasks |-> 0]
    /\ pc = [t \in Tasks |-> "done"]
    /\ req = [t \in Tasks |-> <<>>]
    /\ fieldIdx = [t \in Tasks |-> 1]
    /\ transactions = [t \in Tasks |-> <<>>]
    /\ report = [t \in Tasks |-> NoReport]
    /\ pendTx = [t \in Tasks |-> <<>>]
    /\ pendRep = [t \in Tasks |-> <<>>]
    /\ wrote = [t \in Tasks |-> [tx |-> <<>>, rep |-> <<>>]]
    /\ result = [t \in Tasks |-> RNone]
    /\ resp = [t \in Tasks |-> "none"]
    /\ opened = [t \in Tasks |-> 0]
    /\ faults = [t \in Tasks |-> {}]
    /\ snapshot = [t \in Tasks |-> NoSnapshot]
    /\ reports = [t \in Tasks |-> <<>>]
    /\ trace = [t \in Tasks |-> <<>>]
    /\ beganAt = [t \in Tasks |-> 0]
AggIdle == ra = ReportNew /\ rb = ReportNew
FoldIdle ==
    batch = <<>> /\ split = 0 /\ whole = ReportNew /\ merged = ReportNew /\ fpc = "idle"
MergeIdle ==
    ma = ReportNew /\ mb = ReportNew /\ mc = ReportNew /\ mres = <<>> /\ mpc = "idle"
CsvIdle == csv = <<>> /\ decoded = <<>> /\ cpc = "idle"
AddIdle == ar = ReportNew /\ am = Transaction(<<2021, 7, 12>>, 0, "m") /\ aout = ReportNew /\ apc = "idle"
NoRow == [date |-> <<2021, 7, 12>>, income |-> INCOME, amount |-> 0, memo |-> "m"]
TryIdle == tv = NoRow /\ tres = Err("none") /\ tpc = "idle"
NoRead == [op |-> "none"]
StoreIdle == hGiven = <<>> /\ hBatch = <<>> /\ hRead = NoRead

\* ------------------------------------------- aggregation from the zero report
Abs(x) == IF x < 0 THEN 0 - x ELSE x
Movements == {Transaction(<<2021, 7, 12>>, a, "m") : a \in (0 - MaxAmount)..MaxAmount}
Within(r) ==
    Abs(r.gross_revenue) <= MaxTotal /\ Abs(r.expenses) <= MaxTotal
    /\ Abs(r.net_revenue) <= MaxTotal

AggInit == SysIdle /\ AggIdle /\ FoldIdle /\ MergeIdle /\ CsvIdle /\ AddIdle /\ TryIdle /\ StoreIdle

AddTransactionA(m) ==
    /\ Within(add_transaction(ra, m))
    /\ ra' = add_transaction(ra, m)
    /\ UNCHANGED <<rb, sysVars, foldVars, mergeVars, csvVars, addVars, tryVars, storeVars>>

AddTransactionB(m) ==
    /\ Within(add_transaction(rb, m))
    /\ rb' = add_transaction(rb, m)
    /\ UNCHANGED <<ra, sysVars, foldVars, mergeVars, csvVars, addVars, tryVars, storeVars>>

AddReports ==
    /\ Within(add(ra, rb))
    /\ ra' = add(ra, rb)
    /\ UNCHANGED <<rb, sysVars, foldVars, mergeVars, csvVars, addVars, tryVars, storeVars>>

\* the batch report of a fresh batch replaces rb
BalanceOfBatch(b) ==
    /\ Within(calculate_balance_from_transactions(b))
    /\ rb' = calculate_balance_from_transactions(b)
    /\ UNCHANGED <<ra, sysVars, foldVars, mergeVars, csvVars, addVars, tryVars, storeVars>>

\* the batch report of the movements decoded from two CSV records replaces rb
BalanceOfCsv(lines) ==
    /\ rb' = calculate_balance_from_transactions(read_transaction_from_csv_bytes(lines))
    /\ UNCHANGED <<ra, sysVars, foldVars, mergeVars, csvVars, addVars, tryVars, storeVars>>

\* ra is written with create_report and read back, then totalled with rb
StoreAndTotal ==
    /\ Within(add(ra, rb))
    /\ ra' = calculate_total_report(
                 <<from_row(ReportRow(from_data(<<0, 1>>, ra))).val,
                   from_row(ReportRow(from_data(<<0, 2>>, rb))).val>>)
    /\ UNCHANGED <<rb, sysVars, foldVars, mergeVars, csvVars, addVars, tryVars, storeVars>>

AggNext ==
    \/ \E m \in Movements : AddTransactionA(m)
    \/ \E m \in Movements : AddTransactionB(m)
    \/ AddReports
    \/ \E b \in SeqsUpTo(Movements, 2) : BalanceOfBatch(b)
    \/ \E l1 \in Lines, l2 \in Lines : BalanceOfCsv(<<l1, l2>>)
    \/ StoreAndTotal

SpecReport == AggInit /\ [][AggNext]_vars

\* ------------------------------------------------------------ batch splitting
FoldInit ==
    /\ SysIdle /\ AggIdle /\ MergeIdle /\ CsvIdle /\ AddIdle /\ TryIdle /\ StoreIdle
    /\ batch \in SeqsUpTo(Movements, MaxLen)
    /\ split \in 0..Len(batch)
    /\ whole = ReportNew /\ merged = ReportNew /\ fpc = "input"

FoldWhole ==
    /\ fpc = "input"
    /\ whole' = calculate_balance_from_transactions(batch)
    /\ fpc' = "whole"
    /\ UNCHANGED <<batch, split, merged, sysVars, aggVars, mergeVars, csvVars, addVars, tryVars, storeVars>>

FoldParts ==
    /\ fpc = "whole"
    /\ merged' = add(calculate_balance_from_transactions(SubSeq(batch, 1, split)),
                     calculate_balance_from_transactions(SubSeq(batch, split + 1, Len(batch))))
    /\ fpc' = "done"
    /\ UNCHANGED <<batch, split, whole, sysVars, aggVars, mergeVars, csvVars, addVars, tryVars, storeVars>>

FoldNext == FoldWhole \/ FoldParts

SpecFold == FoldInit /\ [][FoldNext]_vars

\* --------------------------------------------------------------- merge algebra
ReportValues ==
    {from_dec(g, e, n) : g \in 0..MaxRep, e \in 0..MaxRep, n \in (0 - MaxRep)..MaxRep}

MergeInit ==
    /\ SysIdle /\ AggIdle /\ FoldIdle /\ CsvIdle /\ AddIdle /\ TryIdle /\ StoreIdle
    /\ ma \in ReportValues /\ mb \in ReportValues /\ mc \in ReportValues
    /\ mres = <<>> /\ mpc = "input"

Merge ==
    /\ mpc = "input"
    /\ mres' = [ab |-> add(ma, mb), ba |-> add(mb, ma),
                ab_c |-> add(add(ma, mb), mc), a_bc |-> add(ma, add(mb, mc)),
                a_zero |-> add(ma, ReportNew), zero_a |-> add(ReportNew, ma)]
    /\ mpc' = "done"
    /\ UNCHANGED <<ma, mb, mc, sysVars, aggVars, foldVars, csvVars, addVars, tryVars, storeVars>>

MergeNext == Merge

SpecMerge == MergeInit /\ [][MergeNext]_vars

\* -------------------------------------------------------------------- decoding
CsvInit ==
    /\ SysIdle /\ AggIdle /\ FoldIdle /\ MergeIdle /\ AddIdle /\ TryIdle /\ StoreIdle
    /\ csv \in SeqsUpTo(Lines, MaxRows)
    /\ decoded = <<>> /\ cpc = "input"

Decode ==
    /\ cpc = "input"
    /\ decoded' = read_transaction_from_csv_bytes(csv)
    /\ cpc' = "done"
    /\ UNCHANGED <<csv, sysVars, aggVars, foldVars, mergeVars, addVars, tryVars, storeVars>>

CsvNext == Decode

SpecCsv == CsvInit /\ [][CsvNext]_vars

\* ------------------------------------------------- one add_transaction
AddTxInit ==
    /\ SysIdle /\ AggIdle /\ FoldIdle /\ MergeIdle /\ CsvIdle /\ TryIdle /\ StoreIdle
    /\ ar \in ReportValues /\ am \in Movements
    /\ aout = ReportNew /\ apc = "idle"

ApplyAddTransaction ==
    /\ apc = "idle"
    /\ aout' = add_transaction(ar, am)
    /\ apc' = "done"
    /\ UNCHANGED <<ar, am, sysVars, aggVars, foldVars, mergeVars, csvVars, tryVars, storeVars>>

AddTxNext == ApplyAddTransaction

SpecAddTx == AddTxInit /\ [][AddTxNext]_vars

\* ---------------------------------------------- one conversion of a row
\* the labels of the parsed rows: the two accepted ones, other cases of
\* them, longer and other words, the empty label
Labels == {"Income", "Expense", "income", "EXPENSE", "IncomeX", "NotExpense", ""}

\* struct TransactionFromCSV
CsvRows ==
    [date : {<<2021, 7, 20>>, <<2023, 8, 20>>}, income : Labels,
     amount : (0 - MaxAmount)..MaxAmount, memo : {"first", ""}]

TryInit ==
    /\ SysIdle /\ AggIdle /\ FoldIdle /\ MergeIdle /\ CsvIdle /\ AddIdle /\ StoreIdle
    /\ tv \in CsvRows /\ tres = Err("none") /\ tpc = "idle"

Convert ==
    /\ tpc = "idle"
    /\ tres' = try_from(tv)
    /\ tpc' = "done"
    /\ UNCHANGED <<tv, sysVars, aggVars, foldVars, mergeVars, csvVars, addVars, storeVars>>

TryNext == Convert

SpecTryFrom == TryInit /\ [][TryNext]_vars

\* ------------------------------------------------------------ the service
\* Request bodies of the "data" field
BodyNoValid == <<CommentLine, LineBadLabel>>
BodyOne == <<LineIncome>>
BodyMixed == <<LineText, LineIncome, LineBadDate, LineExpense>>
Bodies == {BodyNoValid, BodyOne, BodyMixed}

\* Multipart fields: name (NoName for a field without one) and bytes
NoName == "<none>"
KEY == "data"
Field(name, bytes) == [name |-> name, bytes |-> bytes]
\* The requests: no field, no "data" field, "data" after an unnamed field,
\* "data" alone, two "data" fields
RequestList ==
    << <<>>,
       <<Field("file", BodyOne)>>,
       <<Field(NoName, BodyOne), Field(KEY, BodyNoValid)>>,
       <<Field(KEY, BodyMixed)>>,
       <<Field(KEY, BodyOne), Field(KEY, BodyMixed)>> >>
Requests == {RequestList[i] : i \in DOMAIN RequestList}

\* the place of a request in RequestList
Rank(request) == CHOOSE i \in DOMAIN RequestList : RequestList[i] = request

\* a match on any named field
FieldMatchesAnyName(field) == field.name # NoName

\* transactions: `Some(name) if name == KEY`
FieldMatches(field) == field.name # NoName /\ field.name = KEY

\* commit_transactions without the `?` after create_transactions
NextStepIgnoresInsertError(step, ok) ==
    IF step = "create_transactions" THEN "create_report"
    ELSE IF ~ok THEN "return_err"
    ELSE IF step = "create_report" THEN "commit"
    ELSE "return_ok"

\* commit_transactions that writes the report again after the commit
NextStepWritesAfterCommit(step, ok) ==
    IF ~ok THEN "return_err"
    ELSE IF step = "create_transactions" THEN "create_report"
    ELSE IF step = "create_report" THEN "commit"
    ELSE "create_report"

\* commit_transactions that tries create_report again when it failed
NextStepRetriesReport(step, ok) ==
    IF step = "create_report" THEN (IF ok THEN "commit" ELSE "create_report")
    ELSE IF ~ok THEN "return_err"
    ELSE IF step = "create_transactions" THEN "create_report"
    ELSE "return_ok"

\* commit_transactions without the `?` after create_report
NextStepIgnoresReportError(step, ok) ==
    IF step = "create_transactions" THEN (IF ok THEN "create_report" ELSE "return_err")
    ELSE IF step = "create_report" THEN "commit"
    ELSE (IF ok THEN "return_ok" ELSE "return_err")

\* Model::commit_transactions: create_transactions(..).await?, then
\* create_report(..).await?, then commit().await?, then Ok(report)
NextStep(step, ok) ==
    IF ~ok THEN "return_err"
    ELSE IF step = "create_transactions" THEN "create_report"
    ELSE IF step = "create_report" THEN "commit"
    ELSE "return_ok"

\* a read that also returns the uncommitted rows of the writing transaction
VisibleRowsDirty(tbl, t) ==
    IF tbl = "tx"
    THEN txTable \o pendTx[t]
         \o (IF writer # NoTask /\ writer # t THEN pendTx[writer] ELSE <<>>)
    ELSE reportTable \o pendRep[t]
         \o (IF writer # NoTask /\ writer # t THEN pendRep[writer] ELSE <<>>)

\* a read that returns the committed rows only
VisibleRowsCommittedOnly(tbl, t) == IF tbl = "tx" THEN txTable ELSE reportTable

\* What a statement executed on the sqlx::Transaction of task t reads: the
\* committed rows and the rows the same transaction inserted
\* (fetch_all(&mut *self.transaction); journal_mode WAL).
VisibleRows(tbl, t) ==
    IF tbl = "tx" THEN txTable \o pendTx[t] ELSE reportTable \o pendRep[t]

\* a drop that keeps the uncommitted rows
RolledBackKeepsRows(table, pending) == table \o pending

\* A SqliteStore dropped without commit: its sqlx::Transaction rolls back,
\* the table keeps the committed rows only.
RolledBack(table, pending) == table

\* a commit whose failure leaves the rows in the table
CommitResultPartial(table, pending, ok) == table \o pending

\* SqliteStore::commit: the pending rows become committed, or the commit
\* fails and the transaction, still open, is rolled back when dropped.
CommitResult(table, pending, ok) ==
    IF ok THEN table \o pending ELSE RolledBack(table, pending)

\* SqliteStore::create_transactions: one INSERT with a VALUES tuple per
\* movement. With no movement the statement has no VALUES tuple and SQLite
\* rejects it when it is prepared ("incomplete input").
create_transactions(rows, fault) ==
    IF Len(rows) = 0 THEN Err("QueryError")
    ELSE IF fault THEN Err("QueryError")
    ELSE Ok(rows)

\* SqliteStore::create_report: one INSERT of one row
create_report(row, fault) ==
    IF fault THEN Err("QueryError") ELSE Ok(<<row>>)

\* an id that does not depend on the draw
UuidFixed(t, n) == <<t, 0>>

\* Uuid::new_v4 called by task t, which drew n ids before
Uuid(t, n) == <<t, n>>

\* the rows of all movements but the last
WithIdsDropsLast(transactions_, t, n) ==
    [i \in 1..(Len(transactions_) - 1) |->
        TransactionRow(from_data(Uuid(t, n + i - 1), transactions_[i]))]

\* transactions.iter().map(WithId::from_data) in task t, which drew n ids before
WithIds(transactions_, t, n) ==
    [i \in 1..Len(transactions_) |->
        TransactionRow(from_data(Uuid(t, n + i - 1), transactions_[i]))]

\* the order with the transaction opened before the field is decoded
HandlerNextBeginFirst(step) ==
    IF step = "match" THEN "begin"
    ELSE IF step = "begin" THEN "decode"
    ELSE "commit_transactions"

\* transactions, after a field matched KEY: field.bytes() and the decoder's
\* collect(), then pool.begin(), then Model::commit_transactions
HandlerNext(step) ==
    IF step = "match" THEN "decode"
    ELSE IF step = "decode" THEN "begin"
    ELSE "commit_transactions"

\* the awaits of commit_transactions
Steps == {"create_transactions", "create_report", "commit"}

\* one entry of a task's history
Ev(op, ok) == [op |-> op, ok |-> ok]

\* whether the history tr leaves a sqlx::Transaction open: begun, neither
\* committed nor rolled back
HandleOpen(tr) ==
    /\ \E i \in DOMAIN tr : tr[i] = Ev("begin", TRUE)
    /\ \A i \in DOMAIN tr : tr[i] # Ev("commit", TRUE) /\ tr[i].op # "rollback"

\* the history after the task's locals are dropped: an open sqlx::Transaction
\* rolls back
Dropped(tr) == IF HandleOpen(tr) THEN Append(tr, Ev("rollback", TRUE)) ELSE tr

\* ------------------------------------------------------- one store handle
\* SqliteStore::get_no_transactions on the rows the statement reads
get_no_transactions(visible) == Len(visible)

\* SqliteStore::get_reports on the rows the statement reads: fetch_all
\* decodes every row with from_row and stops at the first error
get_reports(visible) ==
    IF \A i \in DOMAIN visible : from_row(visible[i]).ok
    THEN Ok([i \in DOMAIN visible |-> from_row(visible[i]).val])
    ELSE Err("ColumnDecode")

\* the task that uses the store handle directly
HandleTask == 1

\* the amounts of the Reports written: 20.00, 15.12, 0, -0.05
StoredAmounts == {2000, 1512, 0, 0 - 5}

\* the movements written: 87.32 and -12.13
StoredMovements ==
    {Transaction(<<2021, 7, 12>>, a, "m") : a \in {8732, 0 - 1213}}

\* the Reports written: net_revenue = gross_revenue - expenses
StoredReports == {from_dec(g, e, g - e) : g \in StoredAmounts, e \in StoredAmounts}

StoreInit ==
    /\ SysIdle /\ AggIdle /\ FoldIdle /\ MergeIdle /\ CsvIdle /\ AddIdle /\ TryIdle
    /\ hGiven = <<>> /\ hBatch = <<>> /\ hRead = NoRead

\* store.create_transactions(transactions.iter().map(WithId::from_data))
StoreCreateTransactions(b) ==
    /\ Len(hGiven) + Len(hBatch) + Len(b) <= MaxRows
    /\ LET rows == WithIds(b, HandleTask, nextId[HandleTask])
           res == create_transactions(rows, FALSE)
       IN /\ res.ok
          /\ pendTx' = [pendTx EXCEPT ![HandleTask] = @ \o res.val]
          /\ nextId' = [nextId EXCEPT ![HandleTask] = @ + Len(rows)]
          /\ writer' = HandleTask
          /\ hBatch' = hBatch \o b
          /\ hRead' = NoRead
    /\ UNCHANGED <<txTable, reportTable, pc, req, fieldIdx, transactions, report, pendRep,
                   wrote, result, resp, opened, faults, snapshot, reports, trace, beganAt,
                   hGiven, aggVars, foldVars, mergeVars, csvVars, addVars, tryVars>>

\* store.create_report(&WithId::from_data(r))
StoreCreateReport(r) ==
    /\ Len(hGiven) + Len(hBatch) < MaxRows /\ Len(hGiven) < 2
    /\ LET res == create_report(
                      ReportRow(from_data(Uuid(HandleTask, nextId[HandleTask]), r)), FALSE)
       IN /\ res.ok
          /\ pendRep' = [pendRep EXCEPT ![HandleTask] = @ \o res.val]
          /\ nextId' = [nextId EXCEPT ![HandleTask] = @ + 1]
          /\ writer' = HandleTask
          /\ hGiven' = Append(hGiven, r)
          /\ hRead' = NoRead
    /\ UNCHANGED <<txTable, reportTable, pc, req, fieldIdx, transactions, report, pendTx,
                   wrote, result, resp, opened, faults, snapshot, reports, trace, beganAt,
                   hBatch, aggVars, foldVars, mergeVars, csvVars, addVars, tryVars>>

\* what the read just made returned; a later write or commit discards it
Read(op, got) == [op |-> op, got |-> got]

\* store.get_no_transactions()
StoreGetNoTransactions ==
    /\ hRead' = Read("get_no_transactions",
                     get_no_transactions(VisibleRows("tx", HandleTask)))
    /\ UNCHANGED <<sysVars, hGiven, hBatch, aggVars, foldVars, mergeVars, csvVars, addVars,
                   tryVars>>

\* store.get_reports()
StoreGetReports ==
    /\ hRead' = Read("get_reports", get_reports(VisibleRows("report", HandleTask)))
    /\ UNCHANGED <<sysVars, hGiven, hBatch, aggVars, foldVars, mergeVars, csvVars, addVars,
                   tryVars>>

\* store.commit(), then a new handle from pool.begin()
StoreCommit ==
    /\ pendTx[HandleTask] # <<>> \/ pendRep[HandleTask] # <<>>
    /\ txTable' = CommitResult(txTable, pendTx[HandleTask], TRUE)
    /\ reportTable' = CommitResult(reportTable, pendRep[HandleTask], TRUE)
    /\ pendTx' = [pendTx EXCEPT ![HandleTask] = <<>>]
    /\ pendRep' = [pendRep EXCEPT ![HandleTask] = <<>>]
    /\ writer' = NoTask
    /\ hRead' = NoRead
    /\ UNCHANGED <<nextId, pc, req, fieldIdx, transactions, report, wrote, result, resp,
                   opened, faults, snapshot, reports, trace, beganAt, hGiven, hBatch, aggVars,
                   foldVars, mergeVars, csvVars, addVars, tryVars>>

StoreNext ==
    \/ \E b \in SeqsUpTo(StoredMovements, 2) : StoreCreateTransactions(b)
    \/ \E r \in StoredReports : StoreCreateReport(r)
    \/ StoreGetNoTransactions
    \/ StoreGetReports
    \/ StoreCommit

SpecStore == StoreInit /\ [][StoreNext]_vars

\* a gross_revenue of 10^15 or more: 1000000000000000.01
WideAmounts == {[peta |-> 1, rest |-> 1]}

\* gross_revenue - expenses for a gross_revenue of 10^15 or more and
\* expenses of at most its part below 10^15
WideSub(w, e) == [peta |-> w.peta, rest |-> w.rest - e]

\* the Reports written with such a gross_revenue: net_revenue =
\* gross_revenue - expenses
WideReports == {from_dec(w, e, WideSub(w, e)) : w \in WideAmounts, e \in {0, 1}}

\* the row create_report inserts for such a Report
ReportRowWide(with_id) ==
    [id |-> with_id.id, gross_revenue |-> DecimalTextWide(with_id.data.gross_revenue),
     expenses |-> DecimalText(with_id.data.expenses)]

\* store.create_report(&WithId::from_data(r)) for such a Report
StoreCreateReportWide(r) ==
    /\ Len(hGiven) + Len(hBatch) < MaxRows /\ Len(hGiven) < 2
    /\ LET res == create_report(
                      ReportRowWide(from_data(Uuid(HandleTask, nextId[HandleTask]), r)),
                      FALSE)
       IN /\ res.ok
          /\ pendRep' = [pendRep EXCEPT ![HandleTask] = @ \o res.val]
          /\ nextId' = [nextId EXCEPT ![HandleTask] = @ + 1]
          /\ writer' = HandleTask
          /\ hGiven' = Append(hGiven, r)
          /\ hRead' = NoRead
    /\ UNCHANGED <<txTable, reportTable, pc, req, fieldIdx, transactions, report, pendTx,
                   wrote, result, resp, opened, faults, snapshot, reports, trace, beganAt,
                   hBatch, aggVars, foldVars, mergeVars, csvVars, addVars, tryVars>>

\* the handle of SpecStore, writing Reports of either size
StoreNextWide ==
    \/ \E b \in SeqsUpTo(StoredMovements, 2) : StoreCreateTransactions(b)
    \/ \E r \in StoredReports : StoreCreateReport(r)
    \/ \E r \in WideReports : StoreCreateReportWide(r)
    \/ StoreGetNoTransactions
    \/ StoreGetReports
    \/ StoreCommit

SpecStoreWide == StoreInit /\ [][StoreNextWide]_vars

Init ==
    /\ AggIdle /\ FoldIdle /\ MergeIdle /\ CsvIdle /\ AddIdle /\ TryIdle /\ StoreIdle
    /\ txTable = <<>> /\ reportTable = <<>> /\ writer = NoTask /\ nextId = [t \in Tasks |-> 0]
    /\ pc = [t \in Tasks |-> IF t \in IngestTasks THEN "fields" ELSE "begin"]
    /\ req \in [Tasks -> Requests]
    /\ \A t \in QueryTasks : req[t] = <<>>
    \* the Ingest tasks are interchangeable: of the assignments of the same
    \* requests to them, the one in the order of RequestList, last first
    /\ \A t, u \in IngestTasks : t < u => Rank(req[t]) >= Rank(req[u])
    /\ fieldIdx = [t \in Tasks |-> 1]
    /\ transactions = [t \in Tasks |-> <<>>]
    /\ report = [t \in Tasks |-> NoReport]
    /\ pendTx = [t \in Tasks |-> <<>>]
    /\ pendRep = [t \in Tasks |-> <<>>]
    /\ wrote = [t \in Tasks |-> [tx |-> <<>>, rep |-> <<>>]]
    /\ result = [t \in Tasks |-> RNone]
    /\ resp = [t \in Tasks |-> "none"]
    /\ opened = [t \in Tasks |-> 0]
    /\ faults = [t \in Tasks |-> {}]
    /\ snapshot = [t \in Tasks |-> NoSnapshot]
    /\ reports = [t \in Tasks |-> <<>>]
    /\ trace = [t \in Tasks |-> <<>>]
    /\ beganAt = [t \in Tasks |-> 0]

pureVars == <<aggVars, foldVars, mergeVars, csvVars, addVars, tryVars, storeVars>>

\* The task ends, its store handle (if any) dropped without commit.
Return(t, r, status) ==
    /\ txTable' = RolledBack(txTable, pendTx[t])
    /\ reportTable' = RolledBack(reportTable, pendRep[t])
    /\ pendTx' = [pendTx EXCEPT ![t] = <<>>]
    /\ pendRep' = [pendRep EXCEPT ![t] = <<>>]
    /\ writer' = IF writer = t THEN NoTask ELSE writer
    /\ result' = [result EXCEPT ![t] = r]
    /\ resp' = [resp EXCEPT ![t] = status]
    /\ pc' = [pc EXCEPT ![t] = "done"]

\* the bytes of the last field of the request
FieldBytesLast(t) == req[t][Len(req[t])].bytes

\* field.bytes() of the field the loop of task t is at
FieldBytes(t) == req[t][fieldIdx[t]].bytes

\* The Ingest task t goes on to the statement nxt of transactions with the
\* history tr and the movements batch_, up to its next await.
\* Model::commit_transactions runs without suspending up to its first await:
\* the batch report and its WithId are computed on entry.
Enter(t, nxt, tr, batch_) ==
    /\ transactions' = [transactions EXCEPT ![t] = batch_]
    /\ IF nxt = "commit_transactions"
       THEN /\ report' = [report EXCEPT ![t] =
                   from_data(Uuid(t, nextId[t]),
                             calculate_balance_from_transactions(batch_))]
            /\ nextId' = [nextId EXCEPT ![t] = @ + 1]
            /\ trace' = [trace EXCEPT ![t] = Append(tr, Ev("aggregate", TRUE))]
            /\ pc' = [pc EXCEPT ![t] = "create_transactions"]
       ELSE /\ trace' = [trace EXCEPT ![t] = tr]
            /\ pc' = [pc EXCEPT ![t] = nxt]
            /\ UNCHANGED <<report, nextId>>

\* transactions: one turn of `while let Some(field) =
\* multipart.next_field().await?`, up to the next await; ok is whether the
\* multipart stream could be read
NextField(t, ok) ==
    /\ t \in IngestTasks /\ pc[t] = "fields"
    /\ IF ~ok
       THEN /\ Return(t, RErr("MultipartError", "fields", "fault"), "BAD_REQUEST")
            /\ faults' = [faults EXCEPT ![t] = @ \cup {"fields"}]
            /\ UNCHANGED <<fieldIdx, transactions, report, nextId, trace>>
       ELSE IF fieldIdx[t] > Len(req[t])
       THEN /\ Return(t, RErr("no valid CSV with key field", "fields", "missing_field"),
                      "BAD_REQUEST")
            /\ UNCHANGED <<fieldIdx, transactions, report, nextId, trace, faults>>
       ELSE IF FieldMatches(req[t][fieldIdx[t]])
       THEN /\ Enter(t, HandlerNext("match"), trace[t], transactions[t])
            /\ UNCHANGED <<txTable, reportTable, pendTx, pendRep, writer, result, resp,
                           fieldIdx, faults>>
       ELSE /\ fieldIdx' = [fieldIdx EXCEPT ![t] = @ + 1]
            /\ UNCHANGED <<txTable, reportTable, pendTx, pendRep, writer, result, resp, pc,
                           transactions, report, nextId, trace, faults>>
    /\ UNCHANGED <<req, wrote, opened, snapshot, reports, beganAt, pureVars>>

\* transactions: field.bytes().await?, then
\* CSVReader::read_transaction_from_csv_bytes(..).collect(), which never
\* suspends on a byte slice; ok is whether the body of the field could be read
Bytes(t, ok) ==
    /\ t \in IngestTasks /\ pc[t] = "decode"
    /\ IF ok
       THEN /\ Enter(t, HandlerNext("decode"), Append(trace[t], Ev("decode", TRUE)),
                     read_transaction_from_csv_bytes(FieldBytes(t)))
            /\ UNCHANGED <<txTable, reportTable, pendTx, pendRep, writer, result, resp,
                           faults>>
       ELSE /\ Return(t, RErr("MultipartError", "decode", "fault"), "BAD_REQUEST")
            /\ trace' = [trace EXCEPT ![t] = Dropped(Append(@, Ev("decode", FALSE)))]
            /\ faults' = [faults EXCEPT ![t] = @ \cup {"decode"}]
            /\ UNCHANGED <<transactions, report, nextId>>
    /\ UNCHANGED <<req, fieldIdx, wrote, opened, snapshot, reports, beganAt, pureVars>>

\* pool.begin() of either handler
Begin(t, ok) ==
    /\ pc[t] = "begin"
    /\ IF ok
       THEN /\ opened' = [opened EXCEPT ![t] = @ + 1]
            /\ Enter(t, IF t \in IngestTasks THEN HandlerNext("begin") ELSE "get_reports",
                     Append(trace[t], Ev("begin", TRUE)), transactions[t])
            /\ beganAt' = [beganAt EXCEPT ![t] =
                   IF t \in QueryTasks THEN Len(reportTable) ELSE @]
            /\ UNCHANGED <<txTable, reportTable, pendTx, pendRep, writer, result, resp, faults>>
       ELSE /\ Return(t, RErr("sqlx::Error", "begin", "fault"), "BAD_REQUEST")
            /\ trace' = [trace EXCEPT ![t] = Dropped(Append(@, Ev("begin", FALSE)))]
            /\ faults' = [faults EXCEPT ![t] = @ \cup {"begin"}]
            /\ UNCHANGED <<opened, beganAt, report, nextId, transactions>>
    /\ UNCHANGED <<req, fieldIdx, wrote, snapshot, reports, pureVars>>

CreateTransactions(t, ok) ==
    /\ t \in IngestTasks /\ pc[t] = "create_transactions"
    /\ LET rows == WithIds(transactions[t], t, nextId[t])
           res == create_transactions(rows, ~ok)
           nxt == NextStep("create_transactions", res.ok)
           written == IF res.ok THEN res.val ELSE <<>>
           tr == Append(trace[t], Ev("create_transactions", res.ok))
       IN /\ nextId' = [nextId EXCEPT ![t] = @ + Len(rows)]
          /\ res.ok => writer \in {NoTask, t}
          /\ faults' = [faults EXCEPT ![t] =
                           IF ok THEN @ ELSE @ \cup {"create_transactions"}]
          /\ IF nxt \in Steps
             THEN /\ pendTx' = [pendTx EXCEPT ![t] = @ \o written]
                  /\ wrote' = [wrote EXCEPT ![t].tx = @ \o written]
                  /\ writer' = IF res.ok THEN t ELSE writer
                  /\ pc' = [pc EXCEPT ![t] = nxt]
                  /\ trace' = [trace EXCEPT ![t] = tr]
                  /\ UNCHANGED <<txTable, reportTable, pendRep, result, resp>>
             ELSE /\ Return(t, RErr("QueryError", "create_transactions",
                                     IF ok THEN "empty_insert" ELSE "fault"), "BAD_REQUEST")
                  /\ trace' = [trace EXCEPT ![t] = Dropped(tr)]
                  /\ UNCHANGED wrote
    /\ UNCHANGED <<req, fieldIdx, transactions, report, opened, snapshot, reports, beganAt,
                   pureVars>>

CreateReport(t, ok) ==
    /\ t \in IngestTasks /\ pc[t] = "create_report"
    /\ LET res == create_report(ReportRow(report[t]), ~ok)
           nxt == NextStep("create_report", res.ok)
           written == IF res.ok THEN res.val ELSE <<>>
           tr == Append(trace[t], Ev("create_report", res.ok))
       IN /\ res.ok => writer \in {NoTask, t}
          /\ faults' = [faults EXCEPT ![t] = IF ok THEN @ ELSE @ \cup {"create_report"}]
          /\ IF nxt \in Steps
             THEN /\ pendRep' = [pendRep EXCEPT ![t] = @ \o written]
                  /\ wrote' = [wrote EXCEPT ![t].rep = @ \o written]
                  /\ writer' = IF res.ok THEN t ELSE writer
                  /\ pc' = [pc EXCEPT ![t] = nxt]
                  /\ trace' = [trace EXCEPT ![t] = tr]
                  /\ UNCHANGED <<txTable, reportTable, pendTx, result, resp>>
             ELSE /\ Return(t, RErr("QueryError", "create_report", "fault"), "BAD_REQUEST")
                  /\ trace' = [trace EXCEPT ![t] = Dropped(tr)]
                  /\ UNCHANGED wrote
    /\ UNCHANGED <<nextId, req, fieldIdx, transactions, report, opened, snapshot, reports,
                   beganAt, pureVars>>

Commit(t, ok) ==
    /\ t \in IngestTasks /\ pc[t] = "commit"
    /\ LET nxt == NextStep("commit", ok)
           tr == Append(trace[t], Ev("commit", ok))
       IN /\ txTable' = CommitResult(txTable, pendTx[t], ok)
          /\ reportTable' = CommitResult(reportTable, pendRep[t], ok)
          /\ pendTx' = [pendTx EXCEPT ![t] = <<>>]
          /\ pendRep' = [pendRep EXCEPT ![t] = <<>>]
          /\ writer' = IF writer = t THEN NoTask ELSE writer
          /\ faults' = [faults EXCEPT ![t] = IF ok THEN @ ELSE @ \cup {"commit"}]
          /\ trace' = [trace EXCEPT ![t] = Dropped(tr)]
          /\ IF nxt = "return_ok"
             THEN /\ result' = [result EXCEPT ![t] = ROk(report[t].data)]
                  /\ resp' = [resp EXCEPT ![t] = "CREATED"]
                  /\ pc' = [pc EXCEPT ![t] = "done"]
             ELSE IF nxt \in Steps
             THEN /\ pc' = [pc EXCEPT ![t] = nxt]
                  /\ UNCHANGED <<result, resp>>
             ELSE /\ result' = [result EXCEPT ![t] = RErr("QueryError", "commit", "fault")]
                  /\ resp' = [resp EXCEPT ![t] = "BAD_REQUEST"]
                  /\ pc' = [pc EXCEPT ![t] = "done"]
    /\ UNCHANGED <<nextId, req, fieldIdx, transactions, report, wrote, opened, snapshot,
                   reports, beganAt, pureVars>>

\* the awaits of the two handlers
Awaits ==
    {"fields", "decode", "begin", "create_transactions", "create_report", "commit",
     "get_reports"}

\* The request future is dropped at an await (client gone): no response, a
\* handle it holds is dropped without commit. A future dropped inside
\* commit().await may have handed COMMIT to the connection already: then the
\* transaction is committed (committed = TRUE) and the rollback of the drop
\* does nothing.
Cancel(t, committed) ==
    /\ pc[t] \in Awaits
    /\ committed => pc[t] = "commit"
    /\ IF committed
       THEN /\ txTable' = CommitResult(txTable, pendTx[t], TRUE)
            /\ reportTable' = CommitResult(reportTable, pendRep[t], TRUE)
            /\ pendTx' = [pendTx EXCEPT ![t] = <<>>]
            /\ pendRep' = [pendRep EXCEPT ![t] = <<>>]
            /\ writer' = IF writer = t THEN NoTask ELSE writer
            /\ result' = [result EXCEPT ![t] = RErr("cancelled", pc[t], "cancelled")]
            /\ resp' = [resp EXCEPT ![t] = "none"]
            /\ pc' = [pc EXCEPT ![t] = "done"]
            /\ trace' = [trace EXCEPT ![t] = Append(@, Ev("commit", TRUE))]
       ELSE /\ Return(t, RErr("cancelled", pc[t], "cancelled"), "none")
            /\ trace' = [trace EXCEPT ![t] = Dropped(@)]
    /\ UNCHANGED <<nextId, req, fieldIdx, transactions, report, wrote, opened, faults,
                   snapshot, reports, beganAt, pureVars>>

\* a read that inserts again the rows it returned
get_reports_writes_back(visible) == visible

\* SqliteStore::get_reports: the rows the statement writes, none
\* (Query::select()).
get_reports_writes(visible) == <<>>

\* report: store.get_reports()
GetReports(t, ok) ==
    /\ t \in QueryTasks /\ pc[t] = "get_reports"
    /\ IF ok /\ get_reports(VisibleRows("report", t)).ok
       THEN /\ snapshot' = [snapshot EXCEPT ![t] =
                   [taken |-> TRUE, tx |-> VisibleRows("tx", t),
                    rep |-> VisibleRows("report", t),
                    writing |-> writer]]
            /\ reports' = [reports EXCEPT ![t] =
                   get_reports(VisibleRows("report", t)).val]
            /\ pendRep' = [pendRep EXCEPT
                   ![t] = @ \o get_reports_writes(VisibleRows("report", t))]
            /\ trace' = [trace EXCEPT ![t] = Append(@, Ev("get_reports", TRUE))]
            /\ pc' = [pc EXCEPT ![t] = "total"]
            /\ UNCHANGED <<txTable, reportTable, pendTx, writer, result, resp, faults>>
       ELSE /\ Return(t, RErr("QueryError", "get_reports", "fault"), "BAD_REQUEST")
            /\ trace' = [trace EXCEPT ![t] = Dropped(Append(@, Ev("get_reports", FALSE)))]
            /\ faults' = [faults EXCEPT ![t] = @ \cup {"get_reports"}]
            /\ UNCHANGED <<snapshot, reports>>
    /\ UNCHANGED <<nextId, req, fieldIdx, transactions, report, wrote, opened, beganAt,
                   pureVars>>

\* report: Model::calculate_total_report, the JSON response, the handle dropped
Total(t) ==
    /\ t \in QueryTasks /\ pc[t] = "total"
    /\ Return(t, ROk(calculate_total_report(reports[t])), "OK")
    /\ trace' = [trace EXCEPT ![t] = Dropped(Append(@, Ev("total", TRUE)))]
    /\ UNCHANGED <<nextId, req, fieldIdx, transactions, report, wrote, opened, faults,
                   snapshot, reports, beganAt, pureVars>>

Next ==
    \/ \E t \in Tasks, ok \in BOOLEAN : NextField(t, ok)
    \/ \E t \in Tasks, ok \in BOOLEAN : Bytes(t, ok)
    \/ \E t \in Tasks, ok \in BOOLEAN : Begin(t, ok)
    \/ \E t \in Tasks, ok \in BOOLEAN : CreateTransactions(t, ok)
    \/ \E t \in Tasks, ok \in BOOLEAN : CreateReport(t, ok)
    \/ \E t \in Tasks, ok \in BOOLEAN : Commit(t, ok)
    \/ \E t \in Tasks, committed \in BOOLEAN : Cancel(t, committed)
    \/ \E t \in Tasks, ok \in BOOLEAN : GetReports(t, ok)
    \/ \E t \in Tasks : Total(t)

Spec == Init /\ [][Next]_vars

\* ---------------------------------------------------------------- properties
Range(seq) == {seq[i] : i \in DOMAIN seq}

\* no row written through the handle of task t is visible in the given tables
NoRowsOf(t, txRows, repRows) ==
    /\ Range(wrote[t].tx) \cap Range(txRows) = {}
    /\ Range(wrote[t].rep) \cap Range(repRows) = {}
    /\ \A r \in Range(txRows) \cup Range(repRows) : r.id[1] # t

\* C1: after a storage fault in create_report of an Ingest, no movement row
\* and no fragment of that batch is in the committed tables, in the rows any
\* other transaction reads, or in what a Query read.
C1_AtomicOnReportFault ==
    \A t \in IngestTasks :
        "create_report" \in faults[t] =>
            /\ NoRowsOf(t, txTable, reportTable)
            /\ \A u \in Tasks \ {t} :
                   NoRowsOf(t, VisibleRows("tx", u), VisibleRows("report", u))
            /\ \A q \in QueryTasks :
                   snapshot[q].taken => NoRowsOf(t, snapshot[q].tx, snapshot[q].rep)

\* a batch with movements failed at create_report, and a Query that has
\* opened its transaction and not read yet reads the rows another batch
\* committed
C1_Witness ==
    \E t \in IngestTasks, q \in QueryTasks :
        /\ "create_report" \in faults[t] /\ Len(wrote[t].tx) > 0
        /\ pc[q] = "get_reports"
        /\ Len(VisibleRows("tx", q)) > 0

\* C2: what a Query reads holds, of every batch, either every row (all its
\* movements and its one fragment) or no row.
C2_AllOrNothing ==
    \A q \in QueryTasks : snapshot[q].taken =>
        \A t \in IngestTasks :
            LET seenTx == {r \in Range(snapshot[q].tx) : r.id[1] = t}
                seenRep == {r \in Range(snapshot[q].rep) : r.id[1] = t}
            IN \/ seenTx = {} /\ seenRep = {}
               \/ /\ seenTx = Range(wrote[t].tx)
                  /\ Cardinality(seenTx) = Len(transactions[t])
                  /\ seenRep = {ReportRow(report[t])}

\* a Query read while an Ingest held the write lock with its movements
\* inserted, and the read returned the rows of a committed batch
C2_Witness ==
    \E q \in QueryTasks :
        /\ snapshot[q].taken /\ snapshot[q].writing # NoTask
        /\ Len(wrote[snapshot[q].writing].tx) > 1
        /\ Len(snapshot[q].tx) > 1 /\ Len(snapshot[q].rep) = 1

\* the step in which task t ends with its handle dropped and commit not
\* called: no commit is in its history
DiscardsHandle(t) ==
    /\ pc[t] \in {"create_transactions", "create_report", "commit"}
    /\ pc'[t] = "done"
    /\ result'[t].kind = "err"
    /\ \A i \in DOMAIN trace'[t] : trace'[t][i].op # "commit"

\* C3: when an Ingest's handle is dropped without commit having been called
\* (a failed write, or cancellation after zero, one or both writes), the
\* committed tables are left as they are and hold no row of that transaction.
C3_RollbackOnDrop ==
    [][\A t \in IngestTasks :
          DiscardsHandle(t) =>
              /\ txTable' = txTable /\ reportTable' = reportTable
              /\ NoRowsOf(t, txTable', reportTable')]_vars

\* an Ingest was cancelled after both writes, before commit, while the
\* committed tables held another batch
C3_Witness ==
    \E t \in IngestTasks :
        /\ result[t].kind = "err" /\ result[t].cause = "cancelled"
        /\ result[t].at = "commit"
        /\ \A i \in DOMAIN trace[t] : trace[t][i].op # "commit"
        /\ Len(wrote[t].tx) > 0 /\ Len(wrote[t].rep) = 1
        /\ Len(txTable) > 0

\* C4: a commit that fails leaves the committed tables as they are, with no
\* row of the transaction, and the caller gets the error, not a Report.
C4_CommitFault ==
    [][\A t \in IngestTasks :
          (pc[t] = "commit" /\ "commit" \in faults'[t]) =>
              /\ txTable' = txTable /\ reportTable' = reportTable
              /\ NoRowsOf(t, txTable', reportTable')
              /\ result'[t].kind = "err" /\ result'[t].err = "QueryError"
              /\ resp'[t] = "BAD_REQUEST"]_vars

\* a commit failed for a transaction that had inserted movements and a fragment
C4_Witness ==
    \E t \in IngestTasks :
        /\ "commit" \in faults[t] /\ pc[t] = "done"
        /\ Len(wrote[t].tx) > 0 /\ Len(wrote[t].rep) = 1

Balanced(r) == r.net_revenue = r.gross_revenue - r.expenses

\* C5: every Report reached from the zero Report by add_transaction, add,
\* calculate_balance_from_transactions, calculate_total_report and a read
\* back from the store has net_revenue = gross_revenue - expenses.
C5_NetIsGrossMinusExpenses == Balanced(ra) /\ Balanced(rb)

\* a report with income and expenses and a negative net
C5_Witness ==
    ra.gross_revenue > 0 /\ ra.expenses > ra.gross_revenue /\ rb.expenses > 0

\* C6: the balance of a batch equals add of the balances of its two parts,
\* for every split point.
C6_SplitInvariance == fpc = "done" => whole = merged

\* a batch of income and expense split strictly inside
C6_Witness ==
    /\ fpc = "done" /\ 0 < split /\ split < Len(batch)
    /\ whole.gross_revenue > 0 /\ whole.expenses > 0
    /\ batch[split + 1].amount # 0

\* C7: add is component-wise addition, associative and commutative, with
\* the zero Report as identity.
C7_MergeAlgebra ==
    mpc = "done" =>
        /\ mres.ab_c = mres.a_bc
        /\ mres.ab = mres.ba
        /\ mres.a_zero = ma /\ mres.zero_a = ma
        /\ mres.ab.gross_revenue = ma.gross_revenue + mb.gross_revenue
        /\ mres.ab.expenses = ma.expenses + mb.expenses
        /\ mres.ab.net_revenue = ma.net_revenue + mb.net_revenue

\* three pairwise different reports were merged, one with a negative net
C7_Witness ==
    /\ mpc = "done" /\ ma # mb /\ mb # mc /\ ma # mc
    /\ ma.expenses # mb.expenses /\ mc.net_revenue < 0

\* a well-formed row: a record of at least four fields whose date and amount
\* parse and whose label is Income or Expense
WellFormed(line) ==
    /\ ~line.comment
    /\ Len(line.fields) >= 4
    /\ line.fields[1] \in DOMAIN DateTable
    /\ line.fields[2] \in {"Income", "Expense"}
    /\ line.fields[3] \in DOMAIN DecimalTable

\* the movement of a well-formed row
MovementOf(line) ==
    [date |-> DateTable[line.fields[1]],
     amount |-> IF line.fields[2] = "Income" THEN DecimalTable[line.fields[3]]
                ELSE 0 - DecimalTable[line.fields[3]],
     memo |-> line.fields[4]]

MovementsOf(lines) ==
    LET good == SelectSeq(lines, WellFormed)
    IN [i \in 1..Len(good) |-> MovementOf(good[i])]

\* C8: decoding yields exactly the movements of the well-formed rows, in
\* their order, wherever the other lines stand.
C8_DecoderFaultTolerance == cpc = "done" => decoded = MovementsOf(csv)

\* a well-formed row was decoded after a malformed row and before a row with
\* an invalid label
C8_Witness ==
    /\ cpc = "done" /\ Len(csv) = 3 /\ Len(decoded) = 1
    /\ ~WellFormed(csv[1]) /\ ~csv[1].comment /\ Len(csv[1].fields) < 4
    /\ WellFormed(csv[2])
    /\ Len(csv[3].fields) >= 4 /\ csv[3].fields[2] \notin {"Income", "Expense"}

\* C9: an Ingest of zero movements that meets no storage fault and is not
\* cancelled returns the zero Report and commits one zero fragment and no
\* movement row.
C9_EmptyBatchCommits ==
    \A t \in IngestTasks :
        (/\ pc[t] = "done" /\ opened[t] = 1 /\ transactions[t] = <<>>
         /\ faults[t] = {}
         /\ ~(result[t].kind = "err" /\ result[t].cause = "cancelled"))
        => /\ result[t] = ROk(ReportNew)
           /\ resp[t] = "CREATED"
           /\ {r \in Range(reportTable) : r.id[1] = t}
                  = {ReportRow(from_data(Uuid(t, 0), ReportNew))}
           /\ {r \in Range(txTable) : r.id[1] = t} = {}

NoDataField(request) == \A i \in 1..Len(request) : request[i].name # "data"

\* C10: an Ingest request without a field named "data" opens no transaction,
\* writes nothing, and ends before any field is read: with the missing-field
\* error when its fields were all received, with the error of the multipart
\* stream when they were not, both answered 400, or without an answer when
\* the client went away.
C10_MissingFieldBeforeTransaction ==
    \A t \in IngestTasks :
        NoDataField(req[t]) =>
            /\ opened[t] = 0
            /\ pc[t] \in {"fields", "done"}
            /\ wrote[t] = [tx |-> <<>>, rep |-> <<>>]
            /\ NoRowsOf(t, txTable, reportTable)
            /\ pc[t] = "done" =>
                   /\ result[t].kind = "err" /\ result[t].at = "fields"
                   /\ result[t].cause # "cancelled" => resp[t] = "BAD_REQUEST"
                   /\ (faults[t] = {} /\ result[t].cause # "cancelled") =>
                          result[t] = RErr("no valid CSV with key field", "fields",
                                           "missing_field")

\* a request whose only field has another name ended
C10_Witness ==
    \E t \in IngestTasks :
        /\ NoDataField(req[t]) /\ Len(req[t]) > 0 /\ pc[t] = "done"
        /\ result[t].cause = "missing_field"

\* -------------------------------------------------------------- the Query
RECURSIVE SumTo(_, _)
\* f[1] + ... + f[n]
SumTo(f, n) == IF n = 0 THEN 0 ELSE f[n] + SumTo(f, n - 1)

\* the sum of the sequence f
SumOf(f) == SumTo(f, Len(f))

\* the Report whose parts are the sums of the stored parts of the rows
SumOfRows(rows) ==
    LET g == [i \in DOMAIN rows |-> from_str(rows[i].gross_revenue).val]
        e == [i \in DOMAIN rows |-> from_str(rows[i].expenses).val]
    IN from_dec(SumOf(g), SumOf(e),
                SumOf(g) - SumOf(e))

\* the rows of the report table that were committed when get_reports of
\* query q read it
ReadByQuery(q) == snapshot[q].rep

\* C11 (as amended): a Query that succeeds returns the sum, part by part, of
\* every report row that was committed when its get_reports read the table:
\* all rows committed before its pool.begin() returned and those committed
\* between that and the read; with no such row it returns the zero Report.
C11_QueryTotal ==
    \A q \in QueryTasks :
        /\ snapshot[q].taken =>
               /\ beganAt[q] <= Len(ReadByQuery(q))
               /\ Len(ReadByQuery(q)) <= Len(reportTable)
               /\ ReadByQuery(q) = SubSeq(reportTable, 1, Len(ReadByQuery(q)))
        /\ result[q].kind = "ok" =>
               /\ result[q].val = SumOfRows(ReadByQuery(q))
               /\ ReadByQuery(q) = <<>> => result[q].val = ReportNew

\* a Query returned a total of two fragments, one of them committed after its
\* transaction was opened
C11_Witness ==
    \E q \in QueryTasks :
        /\ result[q].kind = "ok" /\ Len(ReadByQuery(q)) = 2 /\ beganAt[q] = 1
        /\ result[q].val # ReportNew

\* a Query on the empty store returned the zero Report
C11_WitnessEmpty ==
    \E q \in QueryTasks : result[q] = ROk(ReportNew) /\ ReadByQuery(q) = <<>>

\* C11 as stated: a Query that succeeds returns the sum of the report rows
\* committed before its transaction began, and no other.
C11_Original ==
    \A q \in QueryTasks :
        result[q].kind = "ok" =>
            result[q].val = SumOfRows(SubSeq(ReadByQuery(q), 1, beganAt[q]))

\* C12: no step of a Query changes the store: the committed movement rows and
\* report rows are the same before and after each of its steps (begin, read,
\* total, failure or cancellation), it writes no row through its handle and
\* never holds the write lock, whatever the Ingests do in between.
C12_QueryReadOnly ==
    [][\A q \in QueryTasks :
          pc'[q] # pc[q] =>
              /\ txTable' = txTable /\ reportTable' = reportTable
              /\ pendTx'[q] = <<>> /\ pendRep'[q] = <<>>
              /\ wrote'[q] = [tx |-> <<>>, rep |-> <<>>]
              /\ writer' # q]_vars

\* a Query read a store with committed rows and ended while an Ingest held
\* uncommitted rows
C12_Witness ==
    \E q \in QueryTasks :
        /\ pc[q] = "done" /\ result[q].kind = "ok"
        /\ Len(snapshot[q].rep) > 0 /\ Len(snapshot[q].tx) > 0
        /\ snapshot[q].rep = reportTable /\ snapshot[q].tx = txTable
        /\ \E t \in IngestTasks : writer = t /\ pendTx[t] # <<>>

\* ------------------------------------------------------- committed batches
\* the Report of a batch, part by part: the positive amounts, the magnitudes
\* of the others, all amounts
BalanceOf(B) ==
    LET g == [i \in DOMAIN B |-> IF B[i].amount > 0 THEN B[i].amount ELSE 0]
        e == [i \in DOMAIN B |-> IF B[i].amount > 0 THEN 0 ELSE 0 - B[i].amount]
        n == [i \in DOMAIN B |-> B[i].amount]
    IN from_dec(SumOf(g), SumOf(e), SumOf(n))

\* the rows of a table that task t inserted, in table order
RowsOf(table, t) == SelectSeq(table, LAMBDA r : r.id[1] = t)

\* a movement row without its id
MovementIn(row) == Transaction(row.date, row.amount, row.memo)

\* C13: when commit_transactions succeeded on batch B it returned the Report
\* of B, the store holds exactly one report row of that call, which reads
\* back as that Report, and exactly |B| movement rows of that call, those of
\* B; a get_reports that sees no other call's rows returns that one Report.
C13_CommitPostcondition ==
    \A t \in IngestTasks :
        result[t].kind = "ok" =>
            /\ result[t].val = BalanceOf(transactions[t])
            /\ Len(RowsOf(reportTable, t)) = 1
            /\ from_row(RowsOf(reportTable, t)[1]) = Ok(result[t].val)
            /\ Len(RowsOf(txTable, t)) = Len(transactions[t])
            /\ \A i \in 1..Len(transactions[t]) :
                   MovementIn(RowsOf(txTable, t)[i]) = transactions[t][i]
            /\ \A q \in QueryTasks :
                   (/\ snapshot[q].taken /\ snapshot[q].rep # <<>>
                    /\ RowsOf(snapshot[q].rep, t) = snapshot[q].rep)
                   => reports[q] = <<result[t].val>>

\* a batch of two movements was committed to the empty store and a Query
\* read it back
C13_Witness ==
    \E t \in IngestTasks, q \in QueryTasks :
        /\ result[t].kind = "ok" /\ Len(transactions[t]) = 2
        /\ snapshot[q].taken /\ reports[q] = <<result[t].val>>
        /\ reportTable = RowsOf(reportTable, t)

\* the movements of the rows of a movement table
MovementsIn(rows) == [i \in DOMAIN rows |-> MovementIn(rows[i])]

\* the Ingest tasks among S that committed: the COMMIT of their transaction
\* succeeded, whether or not the request lived to answer
CommittedAmong(S) ==
    {t \in S \cap IngestTasks :
        \E i \in DOMAIN trace[t] : trace[t][i] = [op |-> "commit", ok |-> TRUE]}

\* C14: at any time the fold of the committed report rows is the Report of
\* all committed movement rows and there are as many committed report rows as
\* committed Ingests; the total a Query returns is the Report of the movement
\* rows committed when it read, and it read one report row of each Ingest it
\* read a row of, all of them committed Ingests.
C14_TotalsMatchMovements ==
    /\ SumOfRows(reportTable) = BalanceOf(MovementsIn(txTable))
    /\ Len(reportTable) = Cardinality(CommittedAmong(IngestTasks))
    /\ \A q \in QueryTasks :
           result[q].kind = "ok" =>
               /\ result[q].val = BalanceOf(MovementsIn(snapshot[q].tx))
               /\ LET seen == {r.id[1] : r \in Range(snapshot[q].rep) \cup Range(snapshot[q].tx)}
                  IN /\ seen \subseteq CommittedAmong(IngestTasks)
                     /\ \A t \in seen : Len(RowsOf(snapshot[q].rep, t)) = 1
                     /\ Len(snapshot[q].rep) = Cardinality(seen)

\* a Query returned the total of an Ingest that committed two movements, and
\* another Ingest was aborted after it had written its movements
C14_Witness ==
    \E q \in QueryTasks, t, u \in IngestTasks :
        /\ result[q].kind = "ok" /\ result[q].val # ReportNew
        /\ Len(RowsOf(snapshot[q].tx, t)) = 2
        /\ result[t].kind = "ok" /\ Len(transactions[t]) = 2
        /\ result[u].kind = "err" /\ wrote[u].tx # <<>>

\* ------------------------------------------------------------ sign of parts
NonNegative(r) == r.gross_revenue >= 0 /\ r.expenses >= 0

\* C15: every Report built from the zero Report with add_transaction and add,
\* the batch Reports of decoded CSV records among them, has gross_revenue >= 0
\* and expenses >= 0, whatever the sign of the amounts, a negative amount of
\* an Income record included.
C15_PartsNonNegative == NonNegative(ra) /\ NonNegative(rb)

\* the batch Report of an Income record with amount -5.00: the amount went to
\* expenses
C15_Witness ==
    /\ rb = from_dec(0, 500, 0 - 500)
    /\ ra.expenses > 0 /\ ra.gross_revenue > 0

\* ------------------------------------------------------ order of operations
\* the positions of the history tr at which op was attempted
At(tr, op) == {i \in DOMAIN tr : tr[i].op = op}

\* op succeeded somewhere before position j of tr and did not fail before it
SucceededBefore(tr, op, j) ==
    /\ \E i \in 1..(j - 1) : tr[i] = Ev(op, TRUE)
    /\ \A i \in 1..(j - 1) : tr[i] # Ev(op, FALSE)

\* C16: within one Ingest every create_transactions comes before every
\* create_report and every create_report before every commit; create_report is
\* attempted only after create_transactions succeeded, commit only after both
\* writes succeeded.
C16_WriteOrder ==
    \A t \in IngestTasks :
        LET tr == trace[t] IN
        /\ \A i \in At(tr, "create_transactions"), j \in At(tr, "create_report") : i < j
        /\ \A i \in At(tr, "create_report"), j \in At(tr, "commit") : i < j
        /\ \A j \in At(tr, "create_report") : SucceededBefore(tr, "create_transactions", j)
        /\ \A j \in At(tr, "commit") :
               /\ SucceededBefore(tr, "create_transactions", j)
               /\ SucceededBefore(tr, "create_report", j)

\* one Ingest went through the three operations and committed, another
\* stopped at a failed create_transactions
C16_Witness ==
    \E t, u \in IngestTasks :
        /\ At(trace[t], "create_transactions") # {} /\ At(trace[t], "create_report") # {}
        /\ \E j \in At(trace[t], "commit") : trace[t][j].ok
        /\ \E j \in At(trace[u], "create_transactions") : ~trace[u][j].ok
        /\ pc[u] = "done"

\* every attempt of op1 in tr comes before every attempt of op2
Precedes(tr, op1, op2) == \A i \in At(tr, op1), j \in At(tr, op2) : i < j

\* the write operations of an Ingest
Writes == {"create_transactions", "create_report"}

\* C17 (as amended): every Ingest decodes the CSV bytes first, then opens its
\* transaction, then aggregates, then writes: the decoding is finished before
\* pool.begin() is attempted, the transaction is open before the batch Report
\* is computed, and the Report is computed before the first write.
C17_StateOrder ==
    \A t \in IngestTasks :
        LET tr == trace[t] IN
        /\ Precedes(tr, "decode", "begin")
        /\ Precedes(tr, "begin", "aggregate")
        /\ \A w \in Writes : Precedes(tr, "aggregate", w)
        /\ \A j \in At(tr, "begin") : At(tr, "decode") \cap 1..(j - 1) # {}
        /\ \A j \in At(tr, "aggregate") : SucceededBefore(tr, "begin", j)
        /\ \A w \in Writes : \A j \in At(tr, w) : At(tr, "aggregate") \cap 1..(j - 1) # {}

\* an Ingest decoded two movements, opened its transaction, aggregated and
\* wrote
C17_Witness ==
    \E t \in IngestTasks :
        /\ Len(transactions[t]) = 2
        /\ At(trace[t], "decode") # {} /\ At(trace[t], "begin") # {}
        /\ At(trace[t], "aggregate") # {} /\ At(trace[t], "create_report") # {}

\* C17 as stated: the transaction is opened before the decoding of the CSV
\* bytes begins, and the decoding is finished before aggregation and writing.
C17_Original ==
    \A t \in IngestTasks :
        LET tr == trace[t] IN
        /\ Precedes(tr, "begin", "decode")
        /\ Precedes(tr, "decode", "aggregate")
        /\ \A w \in Writes : Precedes(tr, "decode", w)

\* ------------------------------------------------- end of a transaction
\* the positions of tr at which the transaction was terminated: a commit that
\* succeeded, or a rollback
Terminations(tr) == {i \in DOMAIN tr : tr[i] = Ev("commit", TRUE) \/ tr[i].op = "rollback"}

\* C18: a task opens at most one transaction and terminates it at most once,
\* exactly once when the task has ended, by a commit or by a rollback; a
\* write or a commit that fails is followed at once by the rollback and the
\* task ends with an error; nothing is done through the handle after its
\* termination: the history ends there, the task has ended, holds no
\* uncommitted row and not the write lock.
C18_TerminatedOnce ==
    \A t \in Tasks :
        LET tr == trace[t] IN
        /\ opened[t] <= 1
        /\ Cardinality(Terminations(tr)) <= 1
        /\ (pc[t] = "done" /\ opened[t] = 1) => Cardinality(Terminations(tr)) = 1
        /\ opened[t] = 0 => Terminations(tr) = {}
        /\ \A i \in DOMAIN tr :
               (tr[i].op \in Writes \cup {"commit"} /\ ~tr[i].ok) =>
                   /\ i + 1 = Len(tr) /\ tr[i + 1].op = "rollback"
                   /\ pc[t] = "done" /\ result[t].kind = "err"
        /\ \A i \in Terminations(tr) :
               /\ i = Len(tr) /\ pc[t] = "done"
               /\ pendTx[t] = <<>> /\ pendRep[t] = <<>> /\ writer # t

\* one Ingest committed, another was rolled back after a failed create_report,
\* and the Query's transaction was rolled back when it ended
C18_Witness ==
    \E t, u \in IngestTasks, q \in QueryTasks :
        /\ trace[t] # <<>> /\ trace[t][Len(trace[t])] = Ev("commit", TRUE)
        /\ \E i \in DOMAIN trace[u] : trace[u][i] = Ev("create_report", FALSE)
        /\ pc[q] = "done" /\ Terminations(trace[q]) # {}

\* an Ingest was dropped inside commit().await after COMMIT had been handed
\* over: its rows are committed, it was terminated once, and it gave no answer
C18_WitnessCancelledInCommit ==
    \E t \in IngestTasks :
        /\ result[t].kind = "err" /\ result[t].cause = "cancelled" /\ resp[t] = "none"
        /\ trace[t] # <<>> /\ trace[t][Len(trace[t])] = Ev("commit", TRUE)
        /\ Len(RowsOf(txTable, t)) = 2 /\ Len(RowsOf(reportTable, t)) = 1

\* ------------------------------------------------------------- no retry
\* C19: within one Ingest each of create_transactions, create_report and
\* commit is attempted at most once; the storage fault that hit it is what the
\* Ingest returned (one fault, the error of that step, answered 400); the
\* committed store holds the batch of one Ingest at most once: at most one
\* report row and at most one row per movement.
C19_NoRetry ==
    \A t \in IngestTasks :
        /\ \A op \in Steps : Cardinality(At(trace[t], op)) <= 1
        /\ Cardinality(At(trace[t], "begin")) <= 1
        /\ faults[t] # {} =>
               /\ pc[t] = "done" /\ Cardinality(faults[t]) = 1
               /\ result[t].kind = "err" /\ result[t].cause = "fault"
               /\ result[t].at \in faults[t]
               /\ resp[t] = "BAD_REQUEST"
        /\ Len(RowsOf(reportTable, t)) <= 1
        /\ Len(RowsOf(txTable, t)) <= Len(transactions[t])
        /\ Cardinality(Range(RowsOf(txTable, t))) = Len(RowsOf(txTable, t))

\* an Ingest whose commit met a storage fault ended with that error after one
\* attempt of each operation, another committed its batch of two movements
C19_Witness ==
    \E t, u \in IngestTasks :
        /\ faults[t] = {"commit"} /\ pc[t] = "done"
        /\ \A op \in Steps : Cardinality(At(trace[t], op)) = 1
        /\ result[u].kind = "ok" /\ Len(RowsOf(txTable, u)) = 2

\* ------------------------------------------------- add_transaction, by parts
\* C20: add_transaction(report, m) with m.amount > 0 adds the amount to
\* gross_revenue and net_revenue and keeps expenses; with any other amount it
\* adds the magnitude of the amount to expenses, the amount to net_revenue
\* and keeps gross_revenue; with amount 0 the result equals the input.
C20_AddTransactionParts ==
    apc = "done" =>
        /\ am.amount > 0 =>
               /\ aout.gross_revenue = ar.gross_revenue + am.amount
               /\ aout.net_revenue = ar.net_revenue + am.amount
               /\ aout.expenses = ar.expenses
        /\ am.amount <= 0 =>
               /\ aout.expenses = ar.expenses + Abs(am.amount)
               /\ aout.net_revenue = ar.net_revenue + am.amount
               /\ aout.gross_revenue = ar.gross_revenue
        /\ am.amount = 0 => aout = ar

\* a zero movement was added to a Report that is not the zero Report
C20_Witness ==
    /\ apc = "done" /\ am.amount = 0
    /\ ar.gross_revenue # 0 /\ ar.expenses # 0 /\ aout = ar

\* a negative and a positive movement were added
C20_WitnessSigned == apc = "done" /\ am.amount # 0 /\ aout # ar

\* ------------------------------------------------- conversion of a row
\* C21: a parsed row whose label is exactly "Income" converts to a movement
\* with the parsed amount, one whose label is exactly "Expense" to a movement
\* with the negated amount, both with the row's date and memo; every other
\* label, another case of the two included, gives the error InvalidCSVIncome
\* and no movement.
C21_LabelConversion ==
    tpc = "done" =>
        /\ tv.income = "Income" =>
               tres = [ok |-> TRUE,
                       val |-> [date |-> tv.date, amount |-> tv.amount, memo |-> tv.memo]]
        /\ tv.income = "Expense" =>
               tres = [ok |-> TRUE,
                       val |-> [date |-> tv.date, amount |-> 0 - tv.amount, memo |-> tv.memo]]
        /\ tv.income \notin {"Income", "Expense"} =>
               tres = [ok |-> FALSE, err |-> "InvalidCSVIncome"]

\* a row labelled "income" with a non-zero amount was refused
C21_Witness ==
    /\ tpc = "done" /\ tv.income = "income" /\ tv.amount # 0
    /\ tres = [ok |-> FALSE, err |-> "InvalidCSVIncome"]

\* a row labelled "Expense" with a positive amount became a negative movement
C21_WitnessExpense ==
    /\ tpc = "done" /\ tv.income = "Expense" /\ tv.amount > 0
    /\ tres.ok /\ tres.val.amount < 0

\* ------------------------------------------------ round trip of a fragment
\* C22: get_reports through a handle succeeds and returns, in order, Reports
\* equal in gross_revenue, expenses and net_revenue to those written with
\* create_report (each with net_revenue = gross_revenue - expenses), although
\* only the text of gross_revenue and expenses is stored.
C22_ReportRoundTrip ==
    hRead.op = "get_reports" => hRead.got.ok /\ hRead.got.val = hGiven

\* --------------------------------------------- a handle reads its own writes
\* C23: a read through a handle sees the rows written through that handle and
\* not yet committed: get_no_transactions counts them with the committed rows
\* (k after k movements were inserted into an empty store), and get_reports
\* returns the fragment create_report has just written.
C23_ReadsOwnWrites ==
    /\ hRead.op = "get_no_transactions" =>
          /\ hRead.got = Len(txTable) + Len(pendTx[HandleTask])
          /\ txTable = <<>> => hRead.got = Len(hBatch)
    /\ hRead.op = "get_reports" =>
          /\ hRead.got.ok
          /\ Len(hRead.got.val) = Len(reportTable) + Len(pendRep[HandleTask])
          /\ pendRep[HandleTask] # <<>> =>
                hRead.got.val[Len(hRead.got.val)] = hGiven[Len(hGiven)]

\* two movements inserted into an empty store are counted before the commit
C23_Witness ==
    /\ hRead.op = "get_no_transactions" /\ hRead.got = 2
    /\ txTable = <<>> /\ Len(pendTx[HandleTask]) = 2

\* a fragment is read back before the commit
C23_WitnessReport ==
    /\ hRead.op = "get_reports" /\ hRead.got.ok /\ Len(hRead.got.val) = 1
    /\ reportTable = <<>> /\ Len(pendRep[HandleTask]) = 1
    /\ hRead.got.val[1].gross_revenue = 2000 /\ hRead.got.val[1].expenses = 1512

\* ------------------------------------------------------------ identifiers
\* the rows of a sequence have pairwise distinct ids
DistinctIds(rows) ==
    \A i, j \in DOMAIN rows : i # j => rows[i].id # rows[j].id

\* the ids of the rows of a sequence
IdsOf(rows) == {rows[i].id : i \in DOMAIN rows}

\* C24: every movement row and every report row carries an id of its own:
\* the rows of a collection, committed or written through the handle, have
\* pairwise distinct ids, no movement shares an id with a report, and each
\* movement handed to create_transactions, duplicates included, is a row.
C24_DistinctIds ==
    LET txs == VisibleRows("tx", HandleTask)
        reps == VisibleRows("report", HandleTask)
    IN /\ DistinctIds(txTable) /\ DistinctIds(reportTable)
       /\ DistinctIds(txs) /\ DistinctIds(reps)
       /\ IdsOf(txs) \cap IdsOf(reps) = {}
       /\ Len(txs) = Len(hBatch)
       /\ \A i \in DOMAIN txs :
             /\ txs[i].amount = hBatch[i].amount /\ txs[i].date = hBatch[i].date
             /\ txs[i].memo = hBatch[i].memo
       /\ Len(reps) = Len(hGiven)

\* two equal movements of one batch are two committed rows, and a report
\* row is committed with them
C24_Witness ==
    /\ Len(txTable) >= 2 /\ reportTable # <<>>
    /\ txTable[1].id # txTable[2].id
    /\ txTable[1].amount = txTable[2].amount /\ txTable[1].date = txTable[2].date
    /\ txTable[1].memo = txTable[2].memo
    /\ hBatch[1] = hBatch[2]

\* ------------------------------------- one transaction, one "data" field
\* the history tr has at most one entry e
AtMostOnce(tr, e) == \A i, j \in DOMAIN tr : tr[i] = e /\ tr[j] = e => i = j

\* the first field of a request that is named "data"
FirstData(fields) ==
    fields[CHOOSE i \in DOMAIN fields :
              /\ fields[i].name = KEY
              /\ \A j \in 1..(i - 1) : fields[j].name # KEY]

\* per request with a field named "data", the movements of the first such field
FirstDataMovements ==
    [r \in {q \in Requests : \E i \in DOMAIN q : q[i].name = KEY} |->
        read_transaction_from_csv_bytes(FirstData(r).bytes)]

\* C25: a request opens at most one transaction, the rows a task writes carry
\* ids the task drew itself and only the holder of the write lock has
\* uncommitted rows; an Ingest decodes one field, the first one named "data",
\* and the rows it writes are the movements of that field.
C25_OneTransactionFirstField ==
    \A t \in Tasks :
        /\ opened[t] <= 1 /\ AtMostOnce(trace[t], Ev("begin", TRUE))
        /\ \A i \in DOMAIN pendTx[t] : pendTx[t][i].id[1] = t
        /\ \A i \in DOMAIN pendRep[t] : pendRep[t][i].id[1] = t
        /\ (pendTx[t] # <<>> \/ pendRep[t] # <<>>) => writer = t /\ HandleOpen(trace[t])
        /\ AtMostOnce(trace[t], Ev("decode", TRUE))
        /\ result[t].kind = "ok" /\ t \in IngestTasks =>
              \E i \in DOMAIN trace[t] : trace[t][i] = Ev("decode", TRUE)
        /\ (\E i \in DOMAIN trace[t] : trace[t][i] = Ev("decode", TRUE)) =>
              /\ t \in IngestTasks
              /\ req[t] \in DOMAIN FirstDataMovements
              /\ transactions[t] = FirstDataMovements[req[t]]
              /\ \A i \in DOMAIN wrote[t].tx :
                    /\ wrote[t].tx[i].amount = transactions[t][i].amount
                    /\ wrote[t].tx[i].memo = transactions[t][i].memo
              /\ result[t].kind = "ok" => Len(wrote[t].tx) = Len(transactions[t])

\* an Ingest with two "data" fields answered CREATED after committing the one
\* movement of its first field
C25_Witness ==
    \E t \in IngestTasks :
        /\ Len(req[t]) = 2 /\ req[t][1].name = KEY /\ req[t][2].name = KEY
        /\ req[t][1].bytes # req[t][2].bytes
        /\ result[t].kind = "ok" /\ resp[t] = "CREATED" /\ opened[t] = 1
        /\ Len(wrote[t].tx) = 1
        /\ \E i \in DOMAIN txTable : txTable[i] = wrote[t].tx[1]

====
